---- MODULE Spec2Model ----
(***************************************************************************)
(* A model of rust-ircbot: the connection supervisor of src/pkg.rs (the    *)
(* reconnect loop of main, the shared command-channel slot, the ^C signal  *)
(* handler tasks spawned by connect) and the Lua event bridge of           *)
(* src/plugins/irc.rs (handler registry and dispatch_event_inner).         *)
(***************************************************************************)
EXTENDS Integers, Sequences, FiniteSets, TLC

(***************************************************************************)
(* Bounds of the model.                                                    *)
(***************************************************************************)
MaxAttempts == 2      \* connection attempts (calls of connect) in a run with senders
MaxFailures == 4      \* connection attempts in a run where every attempt fails
MaxInputs == 2        \* ^C signals delivered plus commands typed on the console
MaxSecs == 400        \* largest delay the backoff table is applied to
MaxHandlers == 3      \* calls of irc.addhandler
MaxDispatch == 2      \* events dispatched to the Lua state
MaxRegs == 1          \* calls of irc.addhandler where every kind of event is dispatched
MaxOps == 3           \* activate_conn, deactivate_conn and irc.* calls on one Lua state
MaxChannels == 2      \* channels in server.autojoin
MaxEvents == 2        \* events the connection gives to handler

(***************************************************************************)
(* Option<T>: None is the empty tuple, Some(x) the one-element tuple.      *)
(***************************************************************************)
None == <<>>
Some(x) == <<x>>
Unwrap(o) == o[1]

VARIABLES
    \* ---- src/pkg.rs ----
    conf,          \* the parsed configuration: reconnect_time, reconnect_backoff
    recon_delay,   \* main's `recon_delay`: Option<seconds>
    pc,            \* position of the main task in main/connect
    arc,           \* the MutexArc slot: Option<Chan<Cmd>>, a channel is named by its attempt
    nattempts,     \* number of calls of connect so far; the current channel's name
    ports,         \* the channels whose receiving Port still exists
    queue,         \* queue[ch]: the commands sent on channel ch and not yet received
    quitting,      \* conn.quit was executed on the current connection
    result,        \* what the last call of connect returned
    sigstate,      \* sigstate[t]: the signal handler task spawned by attempt t
    sigpending,    \* sigpending[t]: Interrupts queued on that task's listener.port
    sigquits,      \* history: quit commands constructed by task t
    ninterrupts,   \* history: interrupts delivered so far
    nconsole,      \* history: console commands sent so far
    results,       \* history: the result of every attempt
    sleeps,        \* history: the duration of every recon_timer.sleep
    executed,      \* history: the commands the connection loop ran, with the attempt
    lastsend,      \* history: the last try_send: its sender, the slot then, its outcome
    \* ---- src/plugins/irc.rs: one Lua state ----
    handlers,      \* registry[lua_addhandler]: nil, or the table event name -> array
    regs,          \* history: every addhandler call, <<event name, function>>, in order
    lpc,           \* "idle", or "iter" inside the loop of dispatch_event_inner
    levent,        \* the Event of the current (or last) dispatch
    stack,         \* the Lua stack slots 1..nargs: event name, sender, arguments
    heap,          \* the Lua tables alive in this dispatch; a table value names one
    key,           \* the key lua_next was last given: 0 is nil, i the array index
    calls,         \* history: the handler calls of the current (or last) dispatch
    ndispatch,     \* history: number of dispatches started
    dregs,         \* history: number of addhandler calls made before this dispatch
    dresult,       \* how the last dispatch ended: "none", "returned" or "error"
    mutatedAt,     \* history: the dispatch in which a handler first changed a table
    connptr,       \* registry[lua_require]: the stored *mut Conn, None when null
    connlog,       \* history: activate_conn, deactivate_conn and irc.* calls, in order
    \* ---- src/pkg.rs: handler ----
    autojoin,      \* server.autojoin: the channel names, in configured order
    hlog           \* history: per event given to handler, what it did with it

svars == <<conf, recon_delay, pc, arc, nattempts, ports, queue, quitting, result,
           sigstate, sigpending, sigquits, ninterrupts, nconsole, results, sleeps,
           executed, lastsend>>

lvars == <<handlers, regs, lpc, levent, stack, heap, key, calls, ndispatch, dregs,
           dresult, mutatedAt>>

cvars == <<connptr, connlog>>

hvars == <<autojoin, hlog>>

vars == <<svars, lvars, cvars, hvars>>

Attempts == 1..(IF MaxAttempts > MaxFailures THEN MaxAttempts ELSE MaxFailures)

\* The configurations explored: conf.reconnect_time and conf.reconnect_backoff.
Configs(times) == [reconnect_time : times, reconnect_backoff : BOOLEAN]

Last(s) == s[Len(s)]

(***************************************************************************)
(* The "ad-hoc backoff" of main: old Rust `a .. b` match arms are          *)
(* inclusive ranges, and the last arm binds every other value.             *)
(***************************************************************************)
\* The table with the gaps at 60 and 150 closed.
Backoff_Continuous(secs) ==
    CASE secs \in 0..4     -> 5
      [] secs \in 5..9     -> 10
      [] secs \in 10..19   -> 20
      [] secs \in 20..29   -> 30
      [] secs \in 30..60   -> 60
      [] secs \in 61..150  -> 150
      [] secs \in 151..299 -> 300
      [] OTHER             -> secs + 60

Backoff(secs) ==
    CASE secs \in 0..4     -> 5
      [] secs \in 5..9     -> 10
      [] secs \in 10..19   -> 20
      [] secs \in 20..29   -> 30
      [] secs \in 30..59   -> 60
      [] secs \in 61..149  -> 150
      [] secs \in 151..299 -> 300
      [] OTHER             -> secs + 60

(***************************************************************************)
(* Chan::try_send: the command is queued when the receiving Port still     *)
(* exists, and dropped (try_send returns false) when it is gone.  Never    *)
(* blocks.  The value is the new `queue`.                                  *)
(***************************************************************************)
\* try_send that queues even when the Port is gone.
TrySend_PortIgnored(ch, cmd) ==
    [queue EXCEPT ![ch] = Append(@, cmd)]

TrySend(ch, cmd) ==
    IF ch \in ports THEN [queue EXCEPT ![ch] = Append(@, cmd)] ELSE queue

Running == pc /= "exited"

\* lua_require: the Lua state after the library is loaded; no handler yet.
LuaLoaded ==
    /\ handlers = None
    /\ regs = <<>>
    /\ lpc = "idle"
    /\ levent = None
    /\ stack = <<>>
    /\ heap = <<>>
    /\ key = 0
    /\ calls = <<>>
    /\ ndispatch = 0
    /\ dregs = 0
    /\ dresult = "none"
    /\ mutatedAt = 0
    /\ connptr = None
    /\ connlog = <<>>

\* connect, line 142: the autojoin list of the server; no event handled yet.
HandlerInit(aj) ==
    /\ autojoin = aj
    /\ hlog = <<>>

\* main, lines 40-49: the state when the loop is entered, for configuration c.
InitWith(c) ==
    /\ conf = c
    /\ recon_delay = conf.reconnect_time
    /\ pc = "loop"
    /\ arc = None
    /\ nattempts = 0
    /\ ports = {}
    /\ queue = [t \in Attempts |-> <<>>]
    /\ quitting = FALSE
    /\ result = "none"
    /\ sigstate = [t \in Attempts |-> "none"]
    /\ sigpending = [t \in Attempts |-> 0]
    /\ sigquits = [t \in Attempts |-> 0]
    /\ ninterrupts = 0
    /\ nconsole = 0
    /\ results = <<>>
    /\ sleeps = <<>>
    /\ executed = <<>>
    /\ lastsend = None

Init ==
    /\ \E c \in Configs({None, Some(5)}) : InitWith(c)
    /\ LuaLoaded
    /\ HandlerInit(<<>>)

(***************************************************************************)
(* connect, lines 110-114: a fresh channel, its sender put in the slot.    *)
(***************************************************************************)
\* connect without line 114: the slot is left as it was.
Install_SlotKept ==
    /\ pc = "loop"
    /\ nattempts' = nattempts + 1
    /\ ports' = ports \cup {nattempts'}
    /\ pc' = "installed"
    /\ UNCHANGED <<conf, recon_delay, arc, queue, quitting, result, sigstate, sigpending,
                   sigquits, ninterrupts, nconsole, results, sleeps, executed, lastsend>>
    /\ UNCHANGED <<lvars, cvars, hvars>>

Install ==
    /\ pc = "loop"
    /\ nattempts' = nattempts + 1
    /\ ports' = ports \cup {nattempts'}
    /\ arc' = Some(nattempts')
    /\ pc' = "installed"
    /\ UNCHANGED <<conf, recon_delay, queue, quitting, result, sigstate, sigpending,
                   sigquits, ninterrupts, nconsole, results, sleeps, executed, lastsend>>
    /\ UNCHANGED <<lvars, cvars, hvars>>

(***************************************************************************)
(* connect, lines 116-145: register for Interrupt and, when that worked,   *)
(* spawn the "signal handler" task holding a clone of this attempt's       *)
(* sender; then start the connection.                                      *)
(***************************************************************************)
Register ==
    /\ pc = "installed"
    /\ \E ok \in BOOLEAN :
         sigstate' = [sigstate EXCEPT ![nattempts] = IF ok THEN "listening" ELSE "none"]
    /\ quitting' = FALSE
    /\ pc' = "running"
    /\ UNCHANGED <<conf, recon_delay, arc, nattempts, ports, queue, result, sigpending,
                   sigquits, ninterrupts, nconsole, results, sleeps, executed, lastsend>>
    /\ UNCHANGED <<lvars, cvars, hvars>>

(***************************************************************************)
(* irc::conn::connect, the connection loop: it receives one command from   *)
(* opts.commands and runs it on the connection.                            *)
(***************************************************************************)
\* A connection loop that runs the first queued command and leaves it queued.
ExecCommand_NoPop ==
    /\ pc = "running"
    /\ queue[nattempts] /= <<>>
    /\ Len(executed) < MaxInputs + 1
    /\ LET cmd == Head(queue[nattempts]) IN
         /\ executed' = Append(executed, [cmd |-> cmd, conn |-> nattempts])
         /\ quitting' = (quitting \/ cmd.kind = "quit")
    /\ UNCHANGED <<conf, recon_delay, pc, arc, nattempts, ports, queue, result, sigstate,
                   sigpending, sigquits, ninterrupts, nconsole, results, sleeps, lastsend>>
    /\ UNCHANGED <<lvars, cvars, hvars>>

ExecCommand ==
    /\ pc = "running"
    /\ queue[nattempts] /= <<>>
    /\ LET cmd == Head(queue[nattempts]) IN
         /\ executed' = Append(executed, [cmd |-> cmd, conn |-> nattempts])
         /\ quitting' = (quitting \/ cmd.kind = "quit")
    /\ queue' = [queue EXCEPT ![nattempts] = Tail(@)]
    /\ UNCHANGED <<conf, recon_delay, pc, arc, nattempts, ports, result, sigstate,
                   sigpending, sigquits, ninterrupts, nconsole, results, sleeps, lastsend>>
    /\ UNCHANGED <<lvars, cvars, hvars>>

(***************************************************************************)
(* irc::conn::connect returns: Ok(()) after a quit, ErrIO or another       *)
(* error at any time.  opts, and the Port in it, are dropped, and with the *)
(* Port whatever was still queued on it.                                   *)
(***************************************************************************)
ConnEnd(r) ==
    /\ pc = "running"
    /\ r = "Ok" => quitting
    /\ result' = r
    /\ results' = Append(results, r)
    /\ ports' = ports \ {nattempts}
    /\ queue' = [queue EXCEPT ![nattempts] = <<>>]
    /\ pc' = "returned"
    /\ UNCHANGED <<conf, recon_delay, arc, nattempts, quitting, sigstate,
                   sigpending, sigquits, ninterrupts, nconsole, sleeps, executed, lastsend>>
    /\ UNCHANGED <<lvars, cvars, hvars>>

\* HandleResult without the ErrIO arm: the delay is never reset.
HandleResult_NoReset ==
    /\ pc = "returned"
    /\ pc' = IF result = "Ok" THEN "exit" ELSE "clear"
    /\ UNCHANGED <<conf, recon_delay, arc, nattempts, ports, queue, quitting, result,
                   sigstate, sigpending, sigquits, ninterrupts, nconsole, results, sleeps,
                   executed, lastsend>>
    /\ UNCHANGED <<lvars, cvars, hvars>>

\* HandleResult whose Ok arm does not break out of the loop.
HandleResult_NoBreak ==
    /\ pc = "returned"
    /\ recon_delay' = IF result = "ErrIO" THEN conf.reconnect_time ELSE recon_delay
    /\ pc' = "clear"
    /\ UNCHANGED <<conf, arc, nattempts, ports, queue, quitting, result, sigstate,
                   sigpending, sigquits, ninterrupts, nconsole, results, sleeps, executed,
                   lastsend>>
    /\ UNCHANGED <<lvars, cvars, hvars>>

(***************************************************************************)
(* main, lines 54-71: the match on connect's result.                       *)
(***************************************************************************)
HandleResult ==
    /\ pc = "returned"
    /\ IF result = "Ok"
         THEN /\ pc' = "exit"
              /\ UNCHANGED recon_delay
         ELSE /\ recon_delay' = IF result = "ErrIO" THEN conf.reconnect_time
                                                   ELSE recon_delay
              /\ pc' = "clear"
    /\ UNCHANGED <<conf, arc, nattempts, ports, queue, quitting, result, sigstate,
                   sigpending, sigquits, ninterrupts, nconsole, results, sleeps, executed,
                   lastsend>>
    /\ UNCHANGED <<lvars, cvars, hvars>>

\* ClearSlot that leaves the sender in the slot.
ClearSlot_Kept ==
    /\ pc = "clear"
    /\ pc' = "check"
    /\ UNCHANGED <<conf, recon_delay, arc, nattempts, ports, queue, quitting, result,
                   sigstate, sigpending, sigquits, ninterrupts, nconsole, results, sleeps,
                   executed, lastsend>>
    /\ UNCHANGED <<lvars, cvars, hvars>>

(***************************************************************************)
(* main, line 73.                                                          *)
(***************************************************************************)
ClearSlot ==
    /\ pc = "clear"
    /\ arc' = None
    /\ pc' = "check"
    /\ UNCHANGED <<conf, recon_delay, nattempts, ports, queue, quitting, result, sigstate,
                   sigpending, sigquits, ninterrupts, nconsole, results, sleeps, executed, lastsend>>
    /\ UNCHANGED <<lvars, cvars, hvars>>

(***************************************************************************)
(* main, lines 75-78: no delay ends the loop, a delay is slept.            *)
(***************************************************************************)
CheckDelay ==
    /\ pc = "check"
    /\ IF recon_delay = None
         THEN /\ pc' = "exit"
              /\ UNCHANGED sleeps
         ELSE /\ sleeps' = Append(sleeps, Unwrap(recon_delay))
              /\ pc' = "sleeping"
    /\ UNCHANGED <<conf, recon_delay, arc, nattempts, ports, queue, quitting, result,
                   sigstate, sigpending, sigquits, ninterrupts, nconsole, results,
                   executed, lastsend>>
    /\ UNCHANGED <<lvars, cvars, hvars>>

(***************************************************************************)
(* main, lines 78-95: the sleep is over; the delay is escalated.           *)
(***************************************************************************)
SleepDone ==
    /\ pc = "sleeping"
    /\ recon_delay' = IF conf.reconnect_backoff
                        THEN Some(Backoff(Unwrap(recon_delay)))
                        ELSE recon_delay
    /\ pc' = "loop"
    /\ UNCHANGED <<conf, arc, nattempts, ports, queue, quitting, result, sigstate,
                   sigpending, sigquits, ninterrupts, nconsole, results, sleeps, executed, lastsend>>
    /\ UNCHANGED <<lvars, cvars, hvars>>

(***************************************************************************)
(* main, line 99: libc::exit(0) ends every task.                           *)
(***************************************************************************)
Exit ==
    /\ pc = "exit"
    /\ pc' = "exited"
    /\ UNCHANGED <<conf, recon_delay, arc, nattempts, ports, queue, quitting, result,
                   sigstate, sigpending, sigquits, ninterrupts, nconsole, results, sleeps,
                   executed, lastsend>>
    /\ UNCHANGED <<lvars, cvars, hvars>>

(***************************************************************************)
(* The operating system delivers SIGINT: every registered Listener gets an *)
(* Interrupt on its port.  (With no Listener registered the default        *)
(* disposition ends the process; that run is over and is not modelled.)    *)
(***************************************************************************)
Interrupt ==
    /\ Running
    /\ ninterrupts + nconsole < MaxInputs
    /\ \E t \in Attempts : sigstate[t] = "listening"
    /\ ninterrupts' = ninterrupts + 1
    /\ sigpending' = [t \in Attempts |->
                        IF sigstate[t] = "listening" THEN sigpending[t] + 1
                                                     ELSE sigpending[t]]
    /\ UNCHANGED <<conf, recon_delay, pc, arc, nattempts, ports, queue, quitting, result,
                   sigstate, sigquits, nconsole, results, sleeps, executed, lastsend>>
    /\ UNCHANGED <<lvars, cvars, hvars>>

(***************************************************************************)
(* The signal handler task of attempt t, lines 123-134: on an Interrupt it *)
(* try_sends a quit command on its own clone of the sender, unregisters    *)
(* and ends.                                                               *)
(***************************************************************************)
QuitCmd(t) == [src |-> "signal", kind |-> "quit", n |-> t, ch |-> t]

\* SignalFire without `unregister` and `break`: the task keeps listening.
SignalFire_KeepsListening(t) ==
    /\ Running
    /\ sigstate[t] = "listening"
    /\ sigpending[t] > 0
    /\ queue' = TrySend(t, QuitCmd(t))
    /\ lastsend' = Some([src |-> "signal", slot |-> arc, queued |-> (queue' /= queue)])
    /\ sigquits' = [sigquits EXCEPT ![t] = @ + 1]
    /\ sigpending' = [sigpending EXCEPT ![t] = @ - 1]
    /\ UNCHANGED <<conf, recon_delay, pc, arc, nattempts, ports, quitting, result,
                   sigstate, ninterrupts, nconsole, results, sleeps, executed>>
    /\ UNCHANGED <<lvars, cvars, hvars>>

SignalFire(t) ==
    /\ Running
    /\ sigstate[t] = "listening"
    /\ sigpending[t] > 0
    /\ queue' = TrySend(t, QuitCmd(t))
    /\ lastsend' = Some([src |-> "signal", slot |-> arc, queued |-> (queue' /= queue)])
    /\ sigquits' = [sigquits EXCEPT ![t] = @ + 1]
    /\ sigstate' = [sigstate EXCEPT ![t] = "done"]
    /\ sigpending' = [sigpending EXCEPT ![t] = 0]
    /\ UNCHANGED <<conf, recon_delay, pc, arc, nattempts, ports, quitting, result,
                   ninterrupts, nconsole, results, sleeps, executed>>
    /\ UNCHANGED <<lvars, cvars, hvars>>

(***************************************************************************)
(* The stdin listener (stdin.rs): for one parsed command it reads the slot *)
(* under its lock; an empty slot discards the command, otherwise the       *)
(* command is try_sent on the installed sender.                            *)
(***************************************************************************)
ConsoleCmd(k) == [src |-> "console", kind |-> k, n |-> nconsole + 1, ch |-> Unwrap(arc)]

ConsoleSend(k) ==
    /\ Running
    /\ ninterrupts + nconsole < MaxInputs
    /\ nconsole' = nconsole + 1
    /\ queue' = IF arc = None THEN queue ELSE TrySend(Unwrap(arc), ConsoleCmd(k))
    /\ lastsend' = Some([src |-> "console", slot |-> arc, queued |-> (queue' /= queue)])
    /\ UNCHANGED <<conf, recon_delay, pc, arc, nattempts, ports, quitting, result,
                   sigstate, sigpending, sigquits, ninterrupts, results, sleeps, executed>>
    /\ UNCHANGED <<lvars, cvars, hvars>>

Next ==
    \/ (nattempts < MaxAttempts /\ Install)
    \/ Register
    \/ ExecCommand
    \/ \E r \in {"Ok", "ErrIO", "ErrOther"} : ConnEnd(r)
    \/ HandleResult
    \/ ClearSlot
    \/ CheckDelay
    \/ SleepDone
    \/ Exit
    \/ Interrupt
    \/ \E t \in Attempts : SignalFire(t)
    \/ \E k \in {"quit", "other"} : ConsoleSend(k)

Spec == Init /\ [][Next]_vars

(***************************************************************************)
(* The supervisor alone, with a silent console and no ^C: no command is    *)
(* ever sent, so no attempt ends by a quit and every attempt fails.        *)
(***************************************************************************)
InitRetry ==
    /\ \E c \in Configs({None, Some(0), Some(5), Some(30), Some(60)}) : InitWith(c)
    /\ LuaLoaded
    /\ HandlerInit(<<>>)

NextRetry ==
    \/ (nattempts < MaxFailures /\ Install)
    \/ Register
    \/ \E r \in {"ErrIO", "ErrOther"} : ConnEnd(r)
    \/ HandleResult
    \/ ClearSlot
    \/ CheckDelay
    \/ SleepDone
    \/ Exit

SpecRetry == InitRetry /\ [][NextRetry]_vars

(***************************************************************************)
(* The escalation step alone: the state after a first attempt that failed  *)
(* with ErrIO and whose slot was cleared, for every configured delay up to *)
(* MaxSecs with reconnect_backoff set; then the sleep and the escalation.  *)
(***************************************************************************)
InitTable ==
    /\ conf \in [reconnect_time : {Some(d) : d \in 0..MaxSecs}, reconnect_backoff : {TRUE}]
    /\ recon_delay = conf.reconnect_time
    /\ pc = "check"
    /\ arc = None
    /\ nattempts = 1
    /\ ports = {}
    /\ queue = [t \in Attempts |-> <<>>]
    /\ quitting = FALSE
    /\ result = "ErrIO"
    /\ sigstate = [t \in Attempts |-> "none"]
    /\ sigpending = [t \in Attempts |-> 0]
    /\ sigquits = [t \in Attempts |-> 0]
    /\ ninterrupts = 0
    /\ nconsole = 0
    /\ results = <<"ErrIO">>
    /\ sleeps = <<>>
    /\ executed = <<>>
    /\ lastsend = None
    /\ LuaLoaded
    /\ HandlerInit(<<>>)

NextTable ==
    \/ CheckDelay
    \/ SleepDone

SpecTable == InitTable /\ [][NextTable]_vars

(***************************************************************************)
(*                 The Lua event bridge, src/plugins/irc.rs                *)
(***************************************************************************)

\* Lua values: nil, a string, a table (named by its place in `heap`).
Nil == <<"nil">>
Str(b) == <<"string", b>>
Tbl(r) == <<"table", r>>
IsTable(v) == v[1] = "table"

\* The Lua functions a plugin registers, and what each does when called:
\* "A" writes into every table it is given, "B" only reads, "E" raises an error.
HandlerIds == {"A", "B", "E"}

\* The event names a plugin registers handlers for.
RegNames == {"PRIVMSG", "-CONNECTED", "001"}

\* irc::User values (the prefix of a line).
UserFull == [raw |-> "nick!user@host", nick |-> "nick",
             user |-> Some("user"), host |-> Some("host")]
UserServer == [raw |-> "irc.example.net", nick |-> "irc.example.net",
               user |-> None, host |-> None]

\* conn::Event values: Connected, Disconnected and LineReceived(Line).
EvConnected == [kind |-> "Connected", command |-> <<>>, args |-> <<>>, prefix |-> None]
EvLine(cmd, a, pfx) == [kind |-> "LineReceived", command |-> cmd, args |-> a, prefix |-> pfx]

Events ==
    { EvConnected,
      EvLine(<<"IRCCmd", "PRIVMSG">>, <<"#chan", "hello">>, Some(UserFull)),
      EvLine(<<"IRCCmd", "PING">>, <<"token">>, None),
      EvLine(<<"IRCCode", 1>>, <<"bot", "Welcome">>, Some(UserServer)),
      EvLine(<<"IRCAction", "#chan">>, <<"waves">>, Some(UserFull)) }

Digit(d) ==
    CASE d = 0 -> "0" [] d = 1 -> "1" [] d = 2 -> "2" [] d = 3 -> "3" [] d = 4 -> "4"
      [] d = 5 -> "5" [] d = 6 -> "6" [] d = 7 -> "7" [] d = 8 -> "8" [] d = 9 -> "9"

RECURSIVE Decimal(_)
Decimal(n) == IF n < 10 THEN Digit(n) ELSE Decimal(n \div 10) \o Digit(n % 10)

\* write!("{:03u}", code): decimal, left-padded with zeros to three digits.
Format03(code) ==
    IF code < 10 THEN "00" \o Decimal(code)
    ELSE IF code < 100 THEN "0" \o Decimal(code)
    ELSE Decimal(code)

\* lua_dispatch_event, lines 107-150: the event name pushed first.
EventName(e) ==
    CASE e.kind = "Connected"          -> "-CONNECTED"
      [] e.kind = "Disconnected"       -> "-DISCONNECTED"
      [] e.command[1] = "IRCCode"      -> Format03(e.command[2])
      [] e.command[1] = "IRCCmd"       -> e.command[2]
      [] e.command[1] = "IRCAction"    -> "-ACTION"
      [] e.command[1] = "IRCCTCP"      -> "-CTCP"
      [] e.command[1] = "IRCCTCPReply" -> "-CTCPREPLY"

\* lua_dispatch_event, lines 136-149: what the CTCP arms push after the name.
CommandValues(e) ==
    CASE e.kind /= "LineReceived"      -> <<>>
      [] e.command[1] = "IRCAction"    -> <<Str(e.command[2])>>
      [] e.command[1] \in {"IRCCTCP", "IRCCTCPReply"}
                                       -> <<Str(e.command[2]), Str(e.command[3])>>
      [] OTHER                         -> <<>>

\* push_user: a new table; a field set to nil is absent.  `host` is set from
\* user.user(), as line 254 does.
PushUser(u) ==
    LET fields == {"raw", "nick"} \cup (IF u.user = None THEN {} ELSE {"user", "host"})
    IN  [k \in fields |->
            CASE k = "raw"  -> Str(u.raw)
              [] k = "nick" -> Str(u.nick)
              [] k = "user" -> Str(Unwrap(u.user))
              [] k = "host" -> Str(Unwrap(u.user))]

\* The array registered for an event name, <<>> when there is none.
HandlerList(name) ==
    IF handlers /= None /\ name \in DOMAIN Unwrap(handlers)
        THEN Unwrap(handlers)[name] ELSE <<>>

\* lua_addhandler storing at ary[len] instead of ary[len+1].
AddHandler_AtLen(name, f) ==
    /\ lpc = "idle"
    /\ LET t   == IF handlers = None THEN [n \in {} |-> <<>>] ELSE Unwrap(handlers)
           ary == IF name \in DOMAIN t THEN t[name] ELSE <<>>
           new == IF ary = <<>> THEN <<f>> ELSE [ary EXCEPT ![Len(ary)] = f]
       IN  handlers' = Some([n \in DOMAIN t \cup {name} |-> IF n = name THEN new ELSE t[n]])
    /\ regs' = Append(regs, <<name, f>>)
    /\ UNCHANGED <<lpc, levent, stack, heap, key, calls, ndispatch, dregs, dresult,
                   mutatedAt>>
    /\ UNCHANGED <<svars, cvars, hvars>>

(***************************************************************************)
(* lua_addhandler(event, func): get or create the handler table, get or    *)
(* create the array of the event, store func at ary[len+1].  (Calls made   *)
(* by a handler while a dispatch is traversing the array are not           *)
(* modelled: plugins register when they are loaded.)                       *)
(***************************************************************************)
AddHandler(name, f) ==
    /\ lpc = "idle"
    /\ LET t   == IF handlers = None THEN [n \in {} |-> <<>>] ELSE Unwrap(handlers)
           ary == IF name \in DOMAIN t THEN t[name] ELSE <<>>
       IN  handlers' = Some([n \in DOMAIN t \cup {name} |->
                                IF n = name THEN Append(ary, f) ELSE t[n]])
    /\ regs' = Append(regs, <<name, f>>)
    /\ UNCHANGED <<lpc, levent, stack, heap, key, calls, ndispatch, dregs, dresult,
                   mutatedAt>>
    /\ UNCHANGED <<svars, cvars, hvars>>

\* lua_dispatch_event without the L.insert(2) of line 176: the sender stays
\* where it was pushed, after the values of the CTCP arms.
DispatchBegin_NoInsert(e) ==
    /\ lpc = "idle"
    /\ levent' = Some(e)
    /\ ndispatch' = ndispatch + 1
    /\ dregs' = Len(regs)
    /\ calls' = <<>>
    /\ key' = 0
    /\ LET name == EventName(e)
           line == e.kind = "LineReceived"
       IN  IF line /\ HandlerList(name) = <<>>
             THEN /\ stack' = <<Str(name)>> \o CommandValues(e)
                  /\ heap' = <<>>
                  /\ lpc' = "idle"
                  /\ dresult' = "returned"
             ELSE /\ heap' = IF line /\ e.prefix /= None
                               THEN <<PushUser(Unwrap(e.prefix))>> ELSE <<>>
                  /\ stack' = IF line
                                THEN <<Str(name)>> \o CommandValues(e)
                                       \o <<IF e.prefix = None THEN Nil ELSE Tbl(1)>>
                                       \o [i \in 1..Len(e.args) |-> Str(e.args[i])]
                                ELSE <<Str(name)>>
                  /\ IF handlers = None \/ name \notin DOMAIN Unwrap(handlers)
                       THEN lpc' = "idle" /\ dresult' = "returned"
                       ELSE lpc' = "iter" /\ dresult' = "none"
    /\ UNCHANGED <<handlers, regs, mutatedAt>>
    /\ UNCHANGED <<svars, cvars, hvars>>

(***************************************************************************)
(* lua_dispatch_event up to the loop of dispatch_event_inner: the name,    *)
(* for a line the check that a handler exists, the sender and the          *)
(* arguments, then the lookups of dispatch_event_inner, lines 202-214.     *)
(***************************************************************************)
DispatchBegin(e) ==
    /\ lpc = "idle"
    /\ levent' = Some(e)
    /\ ndispatch' = ndispatch + 1
    /\ dregs' = Len(regs)
    /\ calls' = <<>>
    /\ key' = 0
    /\ LET name == EventName(e)
           line == e.kind = "LineReceived"
       IN  IF line /\ HandlerList(name) = <<>>
             THEN \* lines 155-162: return 0
                  /\ stack' = <<Str(name)>> \o CommandValues(e)
                  /\ heap' = <<>>
                  /\ lpc' = "idle"
                  /\ dresult' = "returned"
             ELSE /\ heap' = IF line /\ e.prefix /= None
                               THEN <<PushUser(Unwrap(e.prefix))>> ELSE <<>>
                  /\ stack' = IF line
                                THEN <<Str(name), IF e.prefix = None THEN Nil ELSE Tbl(1)>>
                                       \o CommandValues(e)
                                       \o [i \in 1..Len(e.args) |-> Str(e.args[i])]
                                ELSE <<Str(name)>>
                  /\ IF handlers = None \/ name \notin DOMAIN Unwrap(handlers)
                       THEN \* lines 206-213: return, no handlers
                            lpc' = "idle" /\ dresult' = "returned"
                       ELSE lpc' = "iter" /\ dresult' = "none"
    /\ UNCHANGED <<handlers, regs, mutatedAt>>
    /\ UNCHANGED <<svars, cvars, hvars>>

\* Lines 218-232 with pushvalue(i) for every argument: tables are not copied.
RECURSIVE CopyArgs_Shared(_, _, _, _)
CopyArgs_Shared(i, st, hp, acc) ==
    IF i > Len(st) THEN [args |-> acc, heap |-> hp]
    ELSE CopyArgs_Shared(i + 1, st, hp, Append(acc, st[i]))

\* dispatch_event_inner, lines 218-232: the arguments pushed for one call.  A
\* table argument is replaced by a new table holding its key/value pairs.
RECURSIVE CopyArgs(_, _, _, _)
CopyArgs(i, st, hp, acc) ==
    IF i > Len(st) THEN [args |-> acc, heap |-> hp]
    ELSE IF IsTable(st[i])
           THEN CopyArgs(i + 1, st, Append(hp, hp[st[i][2]]),
                         Append(acc, Tbl(Len(hp) + 1)))
           ELSE CopyArgs(i + 1, st, hp, Append(acc, st[i]))

\* What a handler sees in its arguments: a table by its content.
Seen(args, hp) ==
    [i \in 1..Len(args) |-> IF IsTable(args[i]) THEN <<"table", hp[args[i][2]]>>
                                                ELSE args[i]]

\* Handler "A": t.nick = "MUT" on every table among its arguments.
Mutated(t) == [k \in DOMAIN t \cup {"nick"} |-> IF k = "nick" THEN Str("MUT") ELSE t[k]]

RunHandler(h, args, hp) ==
    IF h = "A"
      THEN [r \in 1..Len(hp) |->
              IF \E i \in 1..Len(args) : args[i] = Tbl(r) THEN Mutated(hp[r]) ELSE hp[r]]
      ELSE hp

\* The pcall of line 233 letting the error of a handler end the dispatch.
InvokeHandler_ErrorAborts ==
    /\ lpc = "iter"
    /\ key < Len(HandlerList(stack[1][2]))
    /\ LET h    == HandlerList(stack[1][2])[key + 1]
           copy == CopyArgs(1, stack, heap, <<>>)
       IN  /\ calls' = Append(calls, [h |-> h, args |-> copy.args,
                                      seen |-> Seen(copy.args, copy.heap),
                                      err |-> (h = "E")])
           /\ heap' = RunHandler(h, copy.args, copy.heap)
           /\ mutatedAt' = IF mutatedAt = 0 /\ heap' /= copy.heap THEN ndispatch
                                                                  ELSE mutatedAt
           /\ IF h = "E" THEN lpc' = "idle" /\ dresult' = "error"
                         ELSE UNCHANGED <<lpc, dresult>>
    /\ key' = key + 1
    /\ UNCHANGED <<handlers, regs, levent, stack, ndispatch, dregs>>
    /\ UNCHANGED <<svars, cvars, hvars>>

(***************************************************************************)
(* dispatch_event_inner, one round of `while L.next(-2)`, lines 215-240:   *)
(* the next function of the array (lua_next walks an array in index        *)
(* order), the copied arguments, the pcall; an error is printed and        *)
(* popped.                                                                 *)
(***************************************************************************)
InvokeHandler ==
    /\ lpc = "iter"
    /\ key < Len(HandlerList(stack[1][2]))
    /\ LET h    == HandlerList(stack[1][2])[key + 1]
           copy == CopyArgs(1, stack, heap, <<>>)
       IN  /\ calls' = Append(calls, [h |-> h, args |-> copy.args,
                                      seen |-> Seen(copy.args, copy.heap),
                                      err |-> (h = "E")])
           /\ heap' = RunHandler(h, copy.args, copy.heap)
           /\ mutatedAt' = IF mutatedAt = 0 /\ heap' /= copy.heap THEN ndispatch
                                                                  ELSE mutatedAt
    /\ key' = key + 1
    /\ UNCHANGED <<handlers, regs, lpc, levent, stack, ndispatch, dregs, dresult>>
    /\ UNCHANGED <<svars, cvars, hvars>>

(***************************************************************************)
(* dispatch_event_inner, line 215: lua_next finds no further key; the      *)
(* dispatch returns 0.                                                     *)
(***************************************************************************)
DispatchReturn ==
    /\ lpc = "iter"
    /\ key = Len(HandlerList(stack[1][2]))
    /\ lpc' = "idle"
    /\ dresult' = "returned"
    /\ UNCHANGED <<handlers, regs, levent, stack, heap, key, calls, ndispatch, dregs,
                   mutatedAt>>
    /\ UNCHANGED <<svars, cvars, hvars>>

InitLua ==
    /\ InitWith([reconnect_time |-> None, reconnect_backoff |-> FALSE])
    /\ LuaLoaded
    /\ HandlerInit(<<>>)

NextLua ==
    \/ \E name \in RegNames, f \in HandlerIds : Len(regs) < MaxHandlers /\ AddHandler(name, f)
    \/ \E e \in Events : ndispatch < MaxDispatch /\ DispatchBegin(e)
    \/ InvokeHandler
    \/ DispatchReturn

SpecLua == InitLua /\ [][NextLua]_vars

(***************************************************************************)
(* The bridge with every kind of event and every event name, and few       *)
(* registered handlers.                                                    *)
(***************************************************************************)
EvDisconnected == [kind |-> "Disconnected", command |-> <<>>, args |-> <<>>,
                   prefix |-> None]

AllEvents ==
    Events \cup
    { EvDisconnected,
      EvLine(<<"IRCCode", 433>>, <<"*", "bot", "Nickname is already in use">>, None),
      EvLine(<<"IRCCTCP", "VERSION", "bot">>, <<>>, Some(UserFull)),
      EvLine(<<"IRCCTCP", "PING", "bot">>, <<"12345">>, Some(UserFull)),
      EvLine(<<"IRCCTCPReply", "PING", "bot">>, <<"12345">>, Some(UserFull)) }

AllNames == {EventName(e) : e \in AllEvents}

NextTranslate ==
    \/ \E name \in AllNames, f \in HandlerIds : Len(regs) < MaxRegs /\ AddHandler(name, f)
    \/ \E e \in AllEvents : ndispatch < MaxDispatch /\ DispatchBegin(e)
    \/ InvokeHandler
    \/ DispatchReturn

SpecTranslate == InitLua /\ [][NextTranslate]_vars

(***************************************************************************)
(* handler (src/pkg.rs): called by the connection for every event, with    *)
(* the autojoin list of the server and the plugin manager.                 *)
(***************************************************************************)
Channels == {"#a", "#b"}

RECURSIVE SeqsUpTo(_, _)
SeqsUpTo(S, n) ==
    IF n = 0 THEN {<<>>}
    ELSE LET shorter == SeqsUpTo(S, n - 1)
         IN  shorter \cup {Append(q, x) : q \in shorter, x \in S}

\* The joins of lines 156-162: for IRCCode(1), one per autojoin channel in
\* the order of the list; nothing for any other event.
BuiltIn(e) ==
    IF e.kind = "LineReceived" /\ e.command = <<"IRCCode", 1>>
      THEN [i \in 1..Len(autojoin) |-> [op |-> "join", chan |-> autojoin[i]]]
      ELSE <<>>

\* handler that gives the event to the plugins before its own reaction.
HandleEvent_DispatchFirst(e) ==
    /\ pc = "running"
    /\ hlog' = Append(hlog, [event |-> e,
                             ops |-> <<[op |-> "dispatch", event |-> e]>> \o BuiltIn(e)])
    /\ UNCHANGED <<svars, lvars, cvars, autojoin>>

\* handler: the built-in reaction, then plugins.dispatch_irc_event(conn, &event).
HandleEvent(e) ==
    /\ pc = "running"
    /\ hlog' = Append(hlog, [event |-> e,
                             ops |-> BuiltIn(e) \o <<[op |-> "dispatch", event |-> e]>>])
    /\ UNCHANGED <<svars, lvars, cvars, autojoin>>

InitEvents ==
    /\ \E c \in Configs({None}) : InitWith(c)
    /\ LuaLoaded
    /\ \E aj \in SeqsUpTo(Channels, MaxChannels) : HandlerInit(aj)

NextEvents ==
    \/ (nattempts = 0 /\ Install)
    \/ Register
    \/ \E e \in AllEvents : Len(hlog) < MaxEvents /\ HandleEvent(e)

SpecEvents == InitEvents /\ [][NextEvents]_vars

(***************************************************************************)
(* The connection pointer of the Lua state and the functions of the `irc`  *)
(* package that need the connection.                                       *)
(***************************************************************************)
\* The connections a plugin manager can activate, one per attempt.
Conns == 1..MaxAttempts

\* lua_host, line 345: the buffer the host is formatted into.
HostBufLen == 64

\* conn.host() of each connection, by its length in bytes: the first fits
\* the buffer, the others do not.
HostLen == [c \in Conns |-> IF c = 1 THEN 16 ELSE 70]

\* conn.me() of each connection.
UserMe == [raw |-> "bot!ircbot@client", nick |-> "bot", user |-> Some("ircbot"),
           host |-> Some("client")]

\* The values a script passes as dst and message.
ArgValues == {Str("hi"), Nil}

\* L.checkbytes(i): passes for a string, raises an argument error otherwise.
CheckBytes(v) == v[1] = "string"

\* One entry of connlog for a call of an irc.* function.
Call(fn, args, err, value, c) ==
    [op |-> "call", fn |-> fn, args |-> args, err |-> err, value |-> value, conn |-> c]

\* activate_conn: the pointer is set to the connection.
ActivateConn(c) ==
    /\ connptr' = Some(c)
    /\ connlog' = Append(connlog, [op |-> "activate", conn |-> c])
    /\ UNCHANGED <<svars, lvars, hvars>>

\* deactivate_conn that leaves the pointer as it is.
DeactivateConn_Kept ==
    /\ connptr' = connptr
    /\ connlog' = Append(connlog, [op |-> "deactivate"])
    /\ UNCHANGED <<svars, lvars, hvars>>

\* deactivate_conn: the pointer is set to null.
DeactivateConn ==
    /\ connptr' = None
    /\ connlog' = Append(connlog, [op |-> "deactivate"])
    /\ UNCHANGED <<svars, lvars, hvars>>

\* getconn: the error it raises, "" when the pointer is not null.
GetConn == IF connptr = None THEN "no active connection" ELSE ""

\* irc.host(): the host of the connection, formatted into 64 bytes.
LuaHost ==
    /\ connlog' = Append(connlog,
         IF GetConn /= "" THEN Call("host", <<>>, GetConn, Nil, None)
         ELSE IF HostLen[Unwrap(connptr)] > HostBufLen
           THEN Call("host", <<>>, "could not format host", Nil, connptr)
           ELSE Call("host", <<>>, "", <<"host of", Unwrap(connptr)>>, connptr))
    /\ UNCHANGED <<svars, lvars, hvars, connptr>>

\* irc.me(): a user table of conn.me().
LuaMe ==
    /\ connlog' = Append(connlog,
         IF GetConn /= "" THEN Call("me", <<>>, GetConn, Nil, None)
           ELSE Call("me", <<>>, "", PushUser(UserMe), connptr))
    /\ UNCHANGED <<svars, lvars, hvars, connptr>>

\* irc.privmsg(dst, message): both arguments are checked, then the
\* connection is fetched and the message sent on it.
LuaPrivmsg(dst, msg) ==
    /\ connlog' = Append(connlog,
         IF ~(CheckBytes(dst) /\ CheckBytes(msg))
           THEN Call("privmsg", <<dst, msg>>, "bad argument", Nil, None)
         ELSE IF GetConn /= "" THEN Call("privmsg", <<dst, msg>>, GetConn, Nil, None)
           ELSE Call("privmsg", <<dst, msg>>, "", Nil, connptr))
    /\ UNCHANGED <<svars, lvars, hvars, connptr>>

\* irc.notice(dst, message): as privmsg, with conn.notice.
LuaNotice(dst, msg) ==
    /\ connlog' = Append(connlog,
         IF ~(CheckBytes(dst) /\ CheckBytes(msg))
           THEN Call("notice", <<dst, msg>>, "bad argument", Nil, None)
         ELSE IF GetConn /= "" THEN Call("notice", <<dst, msg>>, GetConn, Nil, None)
           ELSE Call("notice", <<dst, msg>>, "", Nil, connptr))
    /\ UNCHANGED <<svars, lvars, hvars, connptr>>

NextConn ==
    \/ \E c \in Conns : Len(connlog) < MaxOps /\ ActivateConn(c)
    \/ (Len(connlog) < MaxOps /\ DeactivateConn)
    \/ (Len(connlog) < MaxOps /\ LuaHost)
    \/ (Len(connlog) < MaxOps /\ LuaMe)
    \/ \E dst \in ArgValues, msg \in ArgValues : Len(connlog) < MaxOps /\ LuaPrivmsg(dst, msg)
    \/ \E dst \in ArgValues, msg \in ArgValues : Len(connlog) < MaxOps /\ LuaNotice(dst, msg)

SpecConn == InitLua /\ [][NextConn]_vars

(***************************************************************************)
(*                     Properties of the supervisor                        *)
(***************************************************************************)
Errors == {"ErrIO", "ErrOther"}

RECURSIVE SumQuits(_)
SumQuits(n) == IF n = 0 THEN 0 ELSE sigquits[n] + SumQuits(n - 1)

\* The step table as the specification states it.
StepTable(d) ==
    IF d >= 0 /\ d <= 4 THEN 5
    ELSE IF d >= 5 /\ d <= 9 THEN 10
    ELSE IF d >= 10 /\ d <= 19 THEN 20
    ELSE IF d >= 20 /\ d <= 29 THEN 30
    ELSE IF d >= 30 /\ d <= 59 THEN 60
    ELSE IF d >= 61 /\ d <= 149 THEN 150
    ELSE IF d >= 151 /\ d <= 299 THEN 300
    ELSE d + 60

\* C1: with reconnectBackoff enabled, after a failed attempt's sleep of d
\* seconds the delay is 5 for d in 0..4, 10 for 5..9, 20 for 10..19, 30 for
\* 20..29, 60 for 30..59, 150 for 61..149, 300 for 151..299 and d+60 for
\* every other d (60, 150 and every d >= 300).
C1_BackoffTable ==
    (pc = "loop" /\ sleeps /= <<>> /\ conf.reconnect_backoff)
        => recon_delay = Some(StepTable(Last(sleeps)))

C1_Witness ==
    /\ pc = "loop" /\ conf.reconnect_backoff
    /\ sleeps = <<60>> /\ recon_delay = Some(120)

\* C2: when an attempt ends with ErrIO the delay slept before the next attempt
\* is the configured reconnect_time; when it ends with another error the
\* delay stays what the previous iteration left.
C2_IOErrorResets ==
    /\ [](pc = "sleeping" /\ result = "ErrIO"
            => Last(sleeps) = Unwrap(conf.reconnect_time))
    /\ [][(pc = "returned" /\ pc' /= pc)
            => /\ result = "ErrIO" => recon_delay' = conf.reconnect_time
               /\ result = "ErrOther" => recon_delay' = recon_delay]_vars

C2_Witness ==
    /\ pc = "sleeping" /\ conf.reconnect_backoff
    /\ results = <<"ErrOther", "ErrIO", "ErrOther">>
    /\ sleeps = <<5, 5, 10>>

ThreeFailures(r) ==
    /\ conf = [reconnect_time |-> Some(5), reconnect_backoff |-> TRUE]
    /\ results = <<r, r, r>>
    /\ Len(sleeps) = 3

\* C3 as stated: reconnectTime = Some(5), reconnectBackoff = true and three
\* consecutive ErrIO failures give the sleeps 5, 10, 20.
C3_Original == ThreeFailures("ErrIO") => sleeps = <<5, 10, 20>>

\* C3 as amended: three consecutive ErrIO failures give the sleeps 5, 5, 5
\* (each ErrIO resets the delay); three consecutive failures of another
\* error class give 5, 10, 20.
C3_Amended ==
    /\ ThreeFailures("ErrIO") => sleeps = <<5, 5, 5>>
    /\ ThreeFailures("ErrOther") => sleeps = <<5, 10, 20>>

C3_Witness == ThreeFailures("ErrIO") /\ pc = "sleeping" /\ sleeps = <<5, 5, 5>>

\* C4: the loop ends only after a quit (then with no sleep and no further
\* attempt) or after a failure with reconnect_time None; with reconnect_time
\* Some every failed attempt is followed by a sleep and then the next attempt.
C4_LoopStops ==
    /\ [](pc \in {"exit", "exited"}
            => \/ result = "Ok"
               \/ result \in Errors /\ conf.reconnect_time = None)
    /\ [](conf.reconnect_time /= None /\ pc = "loop"
            => Len(sleeps) = Len(results) /\ Len(results) = nattempts)
    /\ [][/\ (pc = "returned" /\ result = "Ok" /\ pc' /= pc) => pc' = "exit"
          /\ (pc = "returned" /\ result \in Errors /\ pc' /= pc) => pc' = "clear"
          /\ (pc = "clear" /\ pc' /= pc) => pc' = "check"
          /\ (pc = "check" /\ conf.reconnect_time /= None /\ pc' /= pc)
                => pc' = "sleeping" /\ Len(sleeps') = Len(sleeps) + 1
          /\ (pc = "sleeping" /\ pc' /= pc) => pc' = "loop"
          /\ (pc = "loop" /\ pc' /= pc) => pc' = "installed" /\ nattempts' = nattempts + 1
          /\ pc \in {"exit", "exited"}
                => /\ pc' \in {"exit", "exited"}
                   /\ sleeps' = sleeps /\ nattempts' = nattempts]_vars

C4_Witness ==
    /\ pc = "exited" /\ results = <<"ErrOther", "Ok">>
    /\ Len(sleeps) = 1 /\ nattempts = 2

\* C5 as stated: after every attempt, ended by a quit or by an error, the
\* slot is None before the supervisor sleeps, retries or exits.
C5_Original == pc \in {"check", "sleeping", "loop", "exit", "exited"} => arc = None

\* C5 as amended: after an attempt that ended with an error the slot is None
\* before the supervisor sleeps, retries or stops; after a quit the slot is
\* not reset and still holds the ended attempt's sender when the process exits.
C5_Amended ==
    /\ pc \in {"check", "sleeping", "loop"} => arc = None
    /\ pc \in {"exit", "exited"} => (IF result = "Ok" THEN arc = Some(nattempts)
                                                      ELSE arc = None)

C5_Witness ==
    /\ pc = "exited" /\ results = <<"ErrIO", "Ok">>
    /\ arc = Some(2) /\ ports = {}

C7_EmptySlotDrops ==
    [][(arc = None /\ ((\E t \in Attempts : SignalFire(t))
                         \/ (\E k \in {"quit", "other"} : ConsoleSend(k))))
         => /\ queue' = queue
            /\ lastsend'[1].queued = FALSE
            /\ UNCHANGED <<conf, recon_delay, pc, arc, nattempts, ports, quitting, result,
                           results, sleeps, executed>>]_vars

C7_Witness ==
    /\ lastsend /= None
    /\ lastsend[1].src = "signal" /\ lastsend[1].slot = None
    /\ nconsole = 1 /\ pc = "sleeping"
    /\ \A t \in Attempts : queue[t] = <<>>

(***************************************************************************)
(*                     Properties of the event bridge                      *)
(***************************************************************************)

\* The functions registered for `name` by the first n addhandler calls, in
\* the order of the calls.
RegisteredFor(name, n) ==
    LET ForName(r) == r[1] = name
        sel == SelectSeq(SubSeq(regs, 1, n), ForName)
    IN  [i \in 1..Len(sel) |-> sel[i][2]]

\* The registrations the current (or last) dispatch is to call.
Wanted == RegisteredFor(EventName(Unwrap(levent)), dregs)

CalledHandlers == [i \in 1..Len(calls) |-> calls[i].h]

\* C8: for every dispatched event the handlers registered for its name are
\* called in registration order, each once, and all of them see equal values
\* for the event name, the sender and the arguments.
C8_RegistrationOrder ==
    levent /= None =>
        /\ Len(calls) <= Len(Wanted)
        /\ CalledHandlers = SubSeq(Wanted, 1, Len(calls))
        /\ lpc = "idle" => Len(calls) = Len(Wanted)
        /\ \A i \in 1..Len(calls) :
             /\ calls[i].seen[1] = Str(EventName(Unwrap(levent)))
             /\ \A j \in 1..Len(calls) : calls[i].seen = calls[j].seen

C8_Witness ==
    /\ lpc = "idle" /\ dresult = "returned"
    /\ levent /= None /\ EventName(Unwrap(levent)) = "PRIVMSG"
    /\ regs = <<<<"PRIVMSG", "A">>, <<"-CONNECTED", "E">>, <<"PRIVMSG", "B">>>>
    /\ CalledHandlers = <<"A", "B">>

\* C9: a table argument is given to each call as a table of its own, so what
\* a handler writes into it is seen by no later call of the same dispatch and
\* by no call of a later dispatch.
C9_CopyIsolation ==
    \A j \in 1..Len(calls) : \A k \in 1..Len(calls[j].args) :
        IsTable(calls[j].args[k]) =>
            /\ calls[j].args[k] /= stack[k]
            /\ \A i \in 1..(j - 1) : calls[i].args[k] /= calls[j].args[k]
            /\ \A f \in DOMAIN calls[j].seen[k][2] : calls[j].seen[k][2][f] /= Str("MUT")
            /\ calls[j].seen[k][2] = heap[stack[k][2]]

C9_Witness ==
    /\ mutatedAt = 1 /\ ndispatch = 2
    /\ Unwrap(levent).kind = "LineReceived"
    /\ CalledHandlers = <<"A", "B">>
    /\ IsTable(calls[2].args[2])
    /\ heap[calls[1].args[2][2]]["nick"] = Str("MUT")

\* C10: the error of a handler is caught: the handlers registered after it
\* are still called, in order and with the same values, and the dispatch
\* returns without error.
C10_ErrorCaught ==
    \A i \in 1..Len(calls) :
        calls[i].err =>
            /\ dresult /= "error"
            /\ lpc = "idle" => (dresult = "returned" /\ Len(calls) = Len(Wanted))
            /\ lpc = "iter" => key = Len(calls)
            /\ \A j \in (i + 1)..Len(calls) :
                 calls[j].h = Wanted[j] /\ calls[j].seen = calls[i].seen

C10_Witness ==
    /\ lpc = "idle" /\ dresult = "returned"
    /\ levent /= None /\ Unwrap(levent).kind = "LineReceived"
    /\ CalledHandlers = <<"E", "B">>
    /\ calls[1].err /\ ~calls[2].err
    /\ IsTable(calls[2].args[2])

\* The Line of the current (or last) dispatch.
Dispatched == Unwrap(levent)

\* C11 as stated: when no handler is registered for the name of an event, of
\* whatever kind, the dispatch builds nothing but the event name and calls
\* no handler.
C11_Original ==
    (levent /= None /\ lpc = "idle" /\ Wanted = <<>>)
        => /\ stack = <<Str(EventName(Dispatched))>>
           /\ heap = <<>>
           /\ calls = <<>>

\* The field `f` of a table as Lua reads it: nil when absent.
Field(t, f) == IF f \in DOMAIN t THEN t[f] ELSE Nil

OptStr(o) == IF o = None THEN Nil ELSE Str(Unwrap(o))

\* C13 as stated: the sender is nil for a line without prefix; otherwise a
\* table whose raw, nick, user and host are the User's raw text, nickname,
\* username and hostname, user and host being nil exactly when the User has
\* none.
C13_Original ==
    \A i \in 1..Len(calls) :
        Len(calls[i].seen) >= 2 =>
            IF Dispatched.prefix = None
              THEN calls[i].seen[2] = Nil
              ELSE LET u == Unwrap(Dispatched.prefix)
                       t == calls[i].seen[2][2]
                   IN  /\ IsTable(calls[i].seen[2])
                       /\ Field(t, "raw") = Str(u.raw)
                       /\ Field(t, "nick") = Str(u.nick)
                       /\ Field(t, "user") = OptStr(u.user)
                       /\ Field(t, "host") = OptStr(u.host)

\* The call an event is translated to, as the specification states it: the
\* name, then for a line the sender and the arguments.
ExpectedName(e) ==
    CASE e.kind = "Connected" -> "-CONNECTED"
      [] e.kind = "Disconnected" -> "-DISCONNECTED"
      [] e.command = <<"IRCCode", 1>> -> "001"
      [] e.command = <<"IRCCode", 433>> -> "433"
      [] e.command[1] = "IRCCmd" -> e.command[2]
      [] e.command[1] = "IRCAction" -> "-ACTION"
      [] e.command[1] = "IRCCTCP" -> "-CTCP"
      [] e.command[1] = "IRCCTCPReply" -> "-CTCPREPLY"

ExpectedArgs(e) ==
    LET raw == [i \in 1..Len(e.args) |-> Str(e.args[i])]
    IN  CASE e.kind /= "LineReceived" -> <<>>
          [] e.command[1] \in {"IRCCode", "IRCCmd"} -> raw
          [] e.command[1] = "IRCAction" -> <<Str(e.command[2])>> \o raw
          [] OTHER -> <<Str(e.command[2]), Str(e.command[3])>> \o raw

\* C14: every handler call is (event name, sender, arguments...) with the
\* name and the arguments of the translation table; Connected and
\* Disconnected pass the name alone; for a line the sender is the second
\* value, nil without a prefix and a table with one.
C14_Translation ==
    \A i \in 1..Len(calls) :
        LET e == Dispatched
            seen == calls[i].seen
        IN  /\ seen[1] = Str(ExpectedName(e))
            /\ IF e.kind = "LineReceived"
                 THEN /\ Len(seen) = 2 + Len(ExpectedArgs(e))
                      /\ IF e.prefix = None THEN seen[2] = Nil ELSE IsTable(seen[2])
                      /\ SubSeq(seen, 3, Len(seen)) = ExpectedArgs(e)
                 ELSE seen = <<Str(ExpectedName(e))>>

C14_Witness ==
    /\ levent /= None /\ Dispatched.kind = "LineReceived"
    /\ Dispatched.command[1] = "IRCCTCP" /\ Dispatched.command[2] = "PING"
    /\ Len(calls) = 1
    /\ IsTable(calls[1].seen[2])
    /\ SubSeq(calls[1].seen, 3, 5) = <<Str("PING"), Str("bot"), Str("12345")>>

\* The connection bound when entry i of connlog was made: that of the last
\* activate_conn before it, None when the last lifecycle call before it was
\* deactivate_conn or there was none since the library was loaded.
BoundAt(i) ==
    LET J == {j \in 1..(i - 1) : connlog[j].op /= "call"}
    IN  IF J = {} THEN None
        ELSE LET j == CHOOSE k \in J : \A l \in J : l <= k
             IN  IF connlog[j].op = "activate" THEN Some(connlog[j].conn) ELSE None

\* The arguments of a call are what the function takes: none for host and
\* me, two strings for privmsg and notice.
WellTyped(en) ==
    IF en.fn \in {"host", "me"} THEN en.args = <<>>
    ELSE Len(en.args) = 2 /\ \A k \in 1..2 : en.args[k][1] = "string"

LifecycleRule(en, i) ==
    IF BoundAt(i) /= None
      THEN en.conn = BoundAt(i) /\ en.err /= "no active connection"
      ELSE en.err = "no active connection" /\ en.conn = None

\* C12 as stated: every host, me, privmsg or notice call acts on the most
\* recently activated connection when the last lifecycle call was
\* activate_conn, and otherwise fails with "no active connection" without
\* touching a connection.
C12_Original ==
    \A i \in 1..Len(connlog) :
        connlog[i].op = "call" => LifecycleRule(connlog[i], i)

\* C12 amended: the rule holds for the calls whose arguments pass the
\* argument check; privmsg or notice with a non-string argument fails with
\* an argument error in every state, and touches no connection.
C12_Amended ==
    \A i \in 1..Len(connlog) :
        connlog[i].op = "call" =>
            IF WellTyped(connlog[i])
              THEN LifecycleRule(connlog[i], i)
              ELSE connlog[i].err = "bad argument" /\ connlog[i].conn = None

C12_Witness ==
    /\ Len(connlog) = 3
    /\ connlog[1].op = "activate" /\ connlog[1].conn = 1
    /\ connlog[2].op = "deactivate"
    /\ connlog[3].op = "call" /\ connlog[3].fn = "privmsg" /\ WellTyped(connlog[3])
    /\ connlog[3].err = "no active connection"

\* C15: while an attempt is being started or its connection runs, the slot
\* holds the sender of that attempt's own channel, whose Port exists and
\* which no earlier attempt used; never the sender of an earlier attempt.
C15_FreshSlot ==
    pc \in {"installed", "running"} =>
        /\ arc = Some(nattempts)
        /\ nattempts \in ports
        /\ \A t \in 1..(nattempts - 1) : arc /= Some(t) /\ t \notin ports

C15_Witness ==
    /\ pc = "running"
    /\ nattempts = 2
    /\ arc = Some(2)
    /\ results = <<"ErrIO">>

\* C16: a signal handler task that handles an interrupt queues its quit
\* only on the channel that is in the slot at that moment, and only while
\* that channel's attempt has not ended; with an empty slot or an ended
\* attempt nothing is queued on any channel; in every case the task has
\* then unregistered and ended.
C16_QuitOnlyIntoSlot ==
    [][\A t \in Attempts :
          sigquits'[t] /= sigquits[t] =>
              /\ sigstate'[t] = "done"
              /\ IF arc = Some(t) /\ t \in ports
                   THEN queue' = [queue EXCEPT ![t] = Append(@, QuitCmd(t))]
                   ELSE queue' = queue]_vars

\* The task of attempt 1 handled an interrupt while attempt 2 was running:
\* its quit went nowhere.
C16_Witness ==
    /\ sigstate[1] = "done" /\ sigquits[1] = 1
    /\ nattempts = 2 /\ pc = "running"
    /\ sigstate[2] /= "done"
    /\ queue[2] = <<>> /\ executed = <<>>
    /\ lastsend /= None
    /\ lastsend[1].src = "signal" /\ lastsend[1].slot = Some(2) /\ ~lastsend[1].queued

\* The commands of a sequence of commands are pairwise distinct.
Distinct(q) == \A i, j \in 1..Len(q) : i /= j => q[i] /= q[j]

RECURSIVE AllQueued(_)
AllQueued(t) == IF t = 0 THEN <<>> ELSE AllQueued(t - 1) \o queue[t]

\* C17 as stated: every command queued on a channel is run exactly once, on
\* the connection of that channel's attempt: no command is run twice or on
\* another connection, and no connection ends with a command still queued.
C17_Original ==
    [][/\ Distinct([i \in 1..Len(executed') |-> executed'[i].cmd])
       /\ \A i \in 1..Len(executed') : executed'[i].conn = executed'[i].cmd.ch
       /\ (pc = "running" /\ pc' = "returned") => queue[nattempts] = <<>>]_vars

\* C17 amended: a queued command is run at most once, on the connection of
\* its channel's attempt, and is queued nowhere once it has run; what is
\* still queued when the connection ends is dropped with the Port, so the
\* channel of an ended attempt holds nothing a later connection could run.
C17_Amended ==
    /\ Distinct([i \in 1..Len(executed) |-> executed[i].cmd] \o AllQueued(nattempts))
    /\ \A i \in 1..Len(executed) : executed[i].conn = executed[i].cmd.ch
    /\ \A t \in Attempts : \A i \in 1..Len(queue[t]) : queue[t][i].ch = t
    /\ \A t \in Attempts : t \notin ports => queue[t] = <<>>

\* Two console commands were sent over two attempts: the second was queued
\* on channel 2 and run by connection 2, and of the first nothing is left.
C17_Witness ==
    /\ nattempts = 2
    /\ nconsole = 2
    /\ Len(executed) = 1
    /\ executed[1].cmd.n = 2 /\ executed[1].conn = 2
    /\ queue[1] = <<>> /\ queue[2] = <<>>

Is001(e) == e.kind = "LineReceived" /\ e.command[1] = "IRCCode" /\ e.command[2] = 1

\* C18: for every event, what handler does ends with exactly one dispatch,
\* of that very event, to the plugins; before it come, for numeric reply
\* 001, one join per autojoin channel in the configured order, and for any
\* other event nothing.
C18_BuiltInThenForward ==
    \A i \in 1..Len(hlog) :
        LET e == hlog[i].event
            ops == hlog[i].ops
            n == Len(ops)
        IN  /\ n >= 1
            /\ ops[n] = [op |-> "dispatch", event |-> e]
            /\ \A k \in 1..(n - 1) : ops[k].op = "join"
            /\ IF Is001(e)
                 THEN [k \in 1..(n - 1) |-> ops[k].chan] = autojoin
                 ELSE n = 1

C18_Witness ==
    /\ autojoin = <<"#b", "#a">>
    /\ Len(hlog) = 2
    /\ Is001(hlog[1].event)
    /\ Len(hlog[1].ops) = 3 /\ hlog[1].ops[1].chan = "#b" /\ hlog[1].ops[2].chan = "#a"
    /\ hlog[2].event.kind = "LineReceived"
    /\ hlog[2].event.command[1] = "IRCCode" /\ hlog[2].event.command[2] = 433
    /\ Len(hlog[2].ops) = 1

\* The array registered for an event name in a handler table h.
ListIn(h, name) ==
    IF h /= None /\ name \in DOMAIN Unwrap(h) THEN Unwrap(h)[name] ELSE <<>>

\* C19: a call addhandler(E, f) makes the list of E its previous list with
\* f appended and leaves every other list as it was; in no step does any
\* list lose an entry or change one it had.
C19_AppendOnly ==
    [][/\ \A name \in RegNames :
            LET old == ListIn(handlers, name)
                new == ListIn(handlers', name)
            IN  Len(old) <= Len(new) /\ SubSeq(new, 1, Len(old)) = old
       /\ regs' /= regs =>
            LET E == regs'[Len(regs')][1]
                f == regs'[Len(regs')][2]
            IN  /\ handlers' /= None
                /\ ListIn(handlers', E) = Append(ListIn(handlers, E), f)
                /\ \A name \in RegNames \ {E} :
                      ListIn(handlers', name) = ListIn(handlers, name)]_vars

C19_Witness ==
    /\ regs = <<<<"PRIVMSG", "A">>, <<"001", "B">>, <<"PRIVMSG", "E">>>>
    /\ ListIn(handlers, "PRIVMSG") = <<"A", "E">>
    /\ ListIn(handlers, "001") = <<"B">>
    /\ ListIn(handlers, "-CONNECTED") = <<>>

\* C20: with reconnect_backoff set, of two consecutive attempts that both
\* failed with an error other than an IOError the second is followed by a
\* strictly longer sleep than the first (each step of the escalation is
\* strictly longer); and the current delay is None exactly when the
\* configured reconnect_time is None.
C20_StrictlyIncreasing ==
    /\ (recon_delay = None) <=> (conf.reconnect_time = None)
    /\ conf.reconnect_backoff =>
         \A i \in 2..Len(sleeps) :
            (results[i - 1] = "ErrOther" /\ results[i] = "ErrOther")
                => sleeps[i] > sleeps[i - 1]
    /\ \A d \in 0..MaxSecs : Backoff(d) > d

C20_Witness ==
    /\ conf.reconnect_backoff
    /\ results = <<"ErrOther", "ErrOther", "ErrOther", "ErrOther">>
    /\ sleeps = <<30, 60, 120, 150>>
    /\ recon_delay = Some(210)

====
